---- MODULE Spec2Model ----
(***************************************************************************)
(* Habit tracker (src/habit_tracker.py): the Habit class with its period   *)
(* and streak computations, the HabitTracker collection with its           *)
(* DataManager persistence, and the analytics functions.                   *)
(*                                                                         *)
(* A datetime is an integer count of time-of-day slots since midnight of   *)
(* day 0; a date is an integer count of days; day 0 is a Monday.           *)
(***************************************************************************)
EXTENDS Integers, Sequences, FiniteSets, TLC

VARIABLES habits, db, now, res

vars == <<habits, db, now, res>>

-----------------------------------------------------------------------------
(* Bounds of the model *)

\* dates range over 0..MaxDay
MaxDay == 7

\* a habit drawn as an input has at most MaxCompletions completions
MaxCompletions == 3

\* the tracker holds at most MaxHabits habits
MaxHabits == 2

\* the tracker's clock advances at most to slot MaxClock (slot 2 is the
\* first one of day 1, a Tuesday)
MaxClock == 2

\* a habit of the tracker is completed at most MaxDone times
MaxDone == 1

\* the habits of a drawn collection are completed on the days 0..MaxSpan
MaxSpan == 2

(* Program constants *)

\* timedelta(days=7), days // 7: the length of a week
DaysPerWeek == 7

\* get_struggling_habits(habits, days=30)
DefaultDays == 30

\* times of day a datetime can carry (datetime.min.time() is slot 0)
TimesOfDay == {0, 1}

SlotsPerDay == Cardinality(TimesOfDay)

Days == 0..MaxDay

Times == 0..(SlotsPerDay * (MaxDay + 1) - 1)

\* the window lengths get_struggling_habits is called with
Windows == {0, 2, DaysPerWeek, DefaultDays}

Periodicities == {"daily", "weekly"}

\* what a caller may pass as periodicity ("monthly": test_habit_periodicity_validation)
PeriodicityInputs == {"daily", "weekly", "monthly"}

Ids == {"h1", "h2"}

\* the names and descriptions habits are given
Names == {"Exercise"}

Descriptions == {"Daily exercise"}

-----------------------------------------------------------------------------
(* datetime / date arithmetic *)

\* datetime.date(): the time of day is discarded
DateOf(t) == t \div SlotsPerDay

\* datetime.combine(date, datetime.min.time())
Combine(d) == d * SlotsPerDay

\* date.weekday(), Monday = 0
Weekday(d) == d % DaysPerWeek

\* mutant: the text of a datetime carries its date only
isoformat_DateOnly(t) == <<DateOf(t), 0>>

\* datetime.isoformat(): the text of a datetime, date part and time part
isoformat(t) == <<DateOf(t), t % SlotsPerDay>>

\* datetime.fromisoformat()
fromisoformat(text) == Combine(text[1]) + text[2]

RECURSIVE SeqMax(_)
\* sorted(xs)[-1] of a non-empty list
SeqMax(xs) ==
    IF Len(xs) = 1 THEN Head(xs)
    ELSE LET m == SeqMax(Tail(xs)) IN IF Head(xs) > m THEN Head(xs) ELSE m

-----------------------------------------------------------------------------
(* class Habit *)

\* mutant: the periodicity is not checked
ValidPeriodicity_Unchecked(p) == TRUE

\* the check of Habit.__init__: anything but 'daily'/'weekly' raises ValueError
ValidPeriodicity(p) == p \in {"daily", "weekly"}

\* the object Habit.__init__ builds
Habit(name, description, periodicity, id, created_at, completions) ==
    [id |-> id, name |-> name, description |-> description,
     periodicity |-> periodicity,
     created_at |-> created_at, completions |-> completions]

\* Habit.complete_task at clock t
complete_task(h, t) == [h EXCEPT !.completions = Append(@, t)]

\* mutant: the week of a weekly habit ends on its Saturday
is_task_completed_for_period_SundayExcluded(h, target_date) ==
    IF h.periodicity = "daily"
    THEN \E i \in DOMAIN h.completions :
            DateOf(h.completions[i]) = DateOf(target_date)
    ELSE LET start_of_week == DateOf(target_date) - Weekday(DateOf(target_date))
             end_of_week == start_of_week + 5
         IN \E i \in DOMAIN h.completions :
                /\ start_of_week <= DateOf(h.completions[i])
                /\ DateOf(h.completions[i]) <= end_of_week

\* mutant: the week of a weekly habit reaches to the next Monday
is_task_completed_for_period_NextMonday(h, target_date) ==
    IF h.periodicity = "daily"
    THEN \E i \in DOMAIN h.completions :
            DateOf(h.completions[i]) = DateOf(target_date)
    ELSE LET start_of_week == DateOf(target_date) - Weekday(DateOf(target_date))
             end_of_week == start_of_week + 7
         IN \E i \in DOMAIN h.completions :
                /\ start_of_week <= DateOf(h.completions[i])
                /\ DateOf(h.completions[i]) <= end_of_week

\* Habit.is_task_completed_for_period
is_task_completed_for_period(h, target_date) ==
    IF h.periodicity = "daily"
    THEN \E i \in DOMAIN h.completions :
            DateOf(h.completions[i]) = DateOf(target_date)
    ELSE LET start_of_week == DateOf(target_date) - Weekday(DateOf(target_date))
             end_of_week == start_of_week + 6
         IN \E i \in DOMAIN h.completions :
                /\ start_of_week <= DateOf(h.completions[i])
                /\ DateOf(h.completions[i]) <= end_of_week

RECURSIVE StreakWalk_NoCreationBound(_, _, _)
\* mutant: the walk is not bounded by the creation date
StreakWalk_NoCreationBound(h, check_date, step) ==
    IF is_task_completed_for_period(h, Combine(check_date))
    THEN 1 + StreakWalk_NoCreationBound(h, check_date - step, step)
    ELSE 0

RECURSIVE StreakWalk(_, _, _)
\* the while loops of get_current_streak: count completed periods backward
\* from check_date, step days at a time, while check_date >= created_at.date()
StreakWalk(h, check_date, step) ==
    IF /\ check_date >= DateOf(h.created_at)
       /\ is_task_completed_for_period(h, Combine(check_date))
    THEN 1 + StreakWalk(h, check_date - step, step)
    ELSE 0

\* mutant: no early return, and the walk starts at the period of the latest
\* completion instead of the period containing now
get_current_streak_FromLatest(h, t) ==
    IF h.completions = <<>> THEN 0
    ELSE LET latest_completion == DateOf(SeqMax(h.completions))
         IN IF h.periodicity = "daily"
            THEN StreakWalk(h, latest_completion, 1)
            ELSE StreakWalk(h, latest_completion - Weekday(latest_completion),
                            DaysPerWeek)

\* mutant: the early return is also taken when the latest completion is in
\* the current period
get_current_streak_ReturnsOnCurrent(h, t) ==
    IF h.completions = <<>> THEN 0
    ELSE LET latest_completion == DateOf(SeqMax(h.completions))
             current_date == DateOf(t)
             current_week_start == current_date - Weekday(current_date)
         IN IF h.periodicity = "daily"
            THEN IF latest_completion <= current_date THEN 0
                 ELSE StreakWalk(h, current_date, 1)
            ELSE IF latest_completion <= current_week_start + 6 THEN 0
                 ELSE StreakWalk(h, current_week_start, DaysPerWeek)

\* mutant: the latest completion is taken to be the last one of the list,
\* without sorting
get_current_streak_Unsorted(h, t) ==
    IF h.completions = <<>> THEN 0
    ELSE LET latest_completion == DateOf(h.completions[Len(h.completions)])
             current_date == DateOf(t)
             current_week_start == current_date - Weekday(current_date)
         IN IF h.periodicity = "daily"
            THEN IF latest_completion < current_date THEN 0
                 ELSE StreakWalk(h, current_date, 1)
            ELSE IF latest_completion < current_week_start THEN 0
                 ELSE StreakWalk(h, current_week_start, DaysPerWeek)

\* Habit.get_current_streak with datetime.now() = t
get_current_streak(h, t) ==
    IF h.completions = <<>> THEN 0
    ELSE LET latest_completion == DateOf(SeqMax(h.completions))
             current_date == DateOf(t)
             current_week_start == current_date - Weekday(current_date)
         IN IF h.periodicity = "daily"
            THEN IF latest_completion < current_date THEN 0
                 ELSE StreakWalk(h, current_date, 1)
            ELSE IF latest_completion < current_week_start THEN 0
                 ELSE StreakWalk(h, current_week_start, DaysPerWeek)

RECURSIVE WalkIterations(_, _, _)
\* the number of times the body of the while loop of get_current_streak runs
\* (the iteration that ends in break included)
WalkIterations(h, check_date, step) ==
    IF check_date >= DateOf(h.created_at)
    THEN IF is_task_completed_for_period(h, Combine(check_date))
         THEN 1 + WalkIterations(h, check_date - step, step)
         ELSE 1
    ELSE 0

\* the number of walk iterations get_current_streak performs with
\* datetime.now() = t (none when it returns early)
CurrentStreakIterations(h, t) ==
    IF h.completions = <<>> THEN 0
    ELSE LET latest_completion == DateOf(SeqMax(h.completions))
             current_date == DateOf(t)
             current_week_start == current_date - Weekday(current_date)
         IN IF h.periodicity = "daily"
            THEN IF latest_completion < current_date THEN 0
                 ELSE WalkIterations(h, current_date, 1)
            ELSE IF latest_completion < current_week_start THEN 0
                 ELSE WalkIterations(h, current_week_start, DaysPerWeek)

\* mutant: the period containing now is left out (the counts lack their + 1)
AllPeriods_WithoutCurrent(h, t) ==
    LET current_date == DateOf(t)
        created_date == DateOf(h.created_at)
    IN IF h.periodicity = "daily"
       THEN LET days_count == current_date - created_date
            IN [i \in 1..days_count |-> created_date + (i - 1)]
       ELSE LET first_week_start == created_date - Weekday(created_date)
                current_week_start == current_date - Weekday(current_date)
                weeks_count ==
                    (current_week_start - first_week_start) \div DaysPerWeek
            IN [i \in 1..weeks_count |-> first_week_start + (i - 1) * DaysPerWeek]

\* all_periods of get_longest_streak: every period from creation to now
AllPeriods(h, t) ==
    LET current_date == DateOf(t)
        created_date == DateOf(h.created_at)
    IN IF h.periodicity = "daily"
       THEN LET days_count == (current_date - created_date) + 1
            IN [i \in 1..days_count |-> created_date + (i - 1)]
       ELSE LET first_week_start == created_date - Weekday(created_date)
                current_week_start == current_date - Weekday(current_date)
                weeks_count ==
                    ((current_week_start - first_week_start) \div DaysPerWeek) + 1
            IN [i \in 1..weeks_count |-> first_week_start + (i - 1) * DaysPerWeek]

RECURSIVE StreakScan_NoReset(_, _, _)
\* mutant: the running streak is not reset by a period that was not completed
StreakScan_NoReset(status, current_streak, longest_streak) ==
    IF status = <<>> THEN longest_streak
    ELSE IF Head(status)
         THEN StreakScan_NoReset(Tail(status), current_streak + 1,
                                 IF longest_streak > current_streak + 1
                                 THEN longest_streak ELSE current_streak + 1)
         ELSE StreakScan_NoReset(Tail(status), current_streak, longest_streak)

RECURSIVE StreakScan(_, _, _)
\* the for loop of get_longest_streak over completion_status
StreakScan(status, current_streak, longest_streak) ==
    IF status = <<>> THEN longest_streak
    ELSE IF Head(status)
         THEN StreakScan(Tail(status), current_streak + 1,
                         IF longest_streak > current_streak + 1
                         THEN longest_streak ELSE current_streak + 1)
         ELSE StreakScan(Tail(status), 0, longest_streak)

\* Habit.get_longest_streak with datetime.now() = t
get_longest_streak(h, t) ==
    IF h.completions = <<>> THEN 0
    ELSE LET all_periods == AllPeriods(h, t)
             completion_status ==
                 [i \in DOMAIN all_periods |->
                     is_task_completed_for_period(h, Combine(all_periods[i]))]
         IN StreakScan(completion_status, 0, 0)

\* Habit.to_dict
to_dict(h) ==
    [id |-> h.id, name |-> h.name, description |-> h.description,
     periodicity |-> h.periodicity,
     created_at |-> isoformat(h.created_at),
     completions |-> [i \in DOMAIN h.completions |-> isoformat(h.completions[i])]]

\* Habit.from_dict
from_dict(data) ==
    Habit(data.name, data.description, data.periodicity, data.id,
          fromisoformat(data.created_at),
          [i \in DOMAIN data.completions |-> fromisoformat(data.completions[i])])

-----------------------------------------------------------------------------
(* analytics *)

\* mutant: a period is kept only when it starts after the creation date
CheckDates_AfterCreation(h, t, days) ==
    LET today == DateOf(t)
        Gen(n, start, step) ==
            SelectSeq([i \in 1..n |-> start - (i - 1) * step],
                      LAMBDA d : d > DateOf(h.created_at))
    IN IF h.periodicity = "daily"
       THEN Gen(days, today, 1)
       ELSE LET current_week_start == today - Weekday(today)
                weeks_to_check == (days \div DaysPerWeek) + 1
            IN Gen(weeks_to_check, current_week_start, DaysPerWeek)

\* check_dates of is_struggling, in the order the loops append them
CheckDates(h, t, days) ==
    LET today == DateOf(t)
        Gen(n, start, step) ==
            SelectSeq([i \in 1..n |-> start - (i - 1) * step],
                      LAMBDA d : d >= DateOf(h.created_at))
    IN IF h.periodicity = "daily"
       THEN Gen(days, today, 1)
       ELSE LET current_week_start == today - Weekday(today)
                weeks_to_check == (days \div DaysPerWeek) + 1
            IN Gen(weeks_to_check, current_week_start, DaysPerWeek)

RECURSIVE CountPeriods(_, _, _, _)
\* the counting loop of is_struggling: <<completed_periods, broken_periods>>
CountPeriods(h, dates, completed_periods, broken_periods) ==
    IF dates = <<>> THEN <<completed_periods, broken_periods>>
    ELSE IF is_task_completed_for_period(h, Combine(Head(dates)))
         THEN CountPeriods(h, Tail(dates), completed_periods + 1, broken_periods)
         ELSE CountPeriods(h, Tail(dates), completed_periods, broken_periods + 1)

\* is_struggling, the closure of get_struggling_habits
is_struggling(h, t, days) ==
    LET counts == CountPeriods(h, CheckDates(h, t, days), 0, 0)
        completed_periods == counts[1]
        broken_periods == counts[2]
    IN /\ broken_periods > completed_periods
       /\ (broken_periods + completed_periods) > 0

\* what a call of the module-level name list does. The command of the CLI
\* defined as "def list()" under @cli.command() rebinds that name for the whole
\* module, so list(iterable) calls the click command with the iterable as its
\* argument list: click consumes the iterable, then raises TypeError on the
\* first argument (no string) or, without arguments, runs the command (which
\* reads the stored habits and prints them) and raises SystemExit. No list
\* is returned.
cli_list(items) ==
    [returned |-> FALSE,
     value |-> <<>>,
     raised |-> IF items # <<>> THEN "TypeError" ELSE "SystemExit",
     consumed |-> items]

\* get_struggling_habits with datetime.now() = t:
\* list(filter(is_struggling, habits))
get_struggling_habits(hs, t, days) ==
    cli_list(SelectSeq(hs, LAMBDA h : is_struggling(h, t, days)))

\* get_habits_by_periodicity: list(filter(lambda habit: ..., habits))
get_habits_by_periodicity(hs, periodicity) ==
    cli_list(SelectSeq(hs, LAMBDA habit : habit.periodicity = periodicity))

\* Python's None
None == "None"

RECURSIVE MaxByStreak_LastOfTies(_, _)
\* mutant: among pairs with the same streak the last one is kept
MaxByStreak_LastOfTies(habit_streaks, best) ==
    IF habit_streaks = <<>> THEN best
    ELSE MaxByStreak_LastOfTies(Tail(habit_streaks),
                                IF Head(habit_streaks)[2] >= best[2]
                                THEN Head(habit_streaks) ELSE best)

RECURSIVE MaxByStreak(_, _)
\* max(habit_streaks, key=lambda x: x[1]) as a scan: the pair kept so far is
\* replaced only by a pair with a strictly longer streak
MaxByStreak(habit_streaks, best) ==
    IF habit_streaks = <<>> THEN best
    ELSE MaxByStreak(Tail(habit_streaks),
                     IF Head(habit_streaks)[2] > best[2]
                     THEN Head(habit_streaks) ELSE best)

\* get_longest_streak_all with datetime.now() = t
get_longest_streak_all(hs, t) ==
    IF hs = <<>> THEN <<None, 0>>
    ELSE LET habit_streaks ==
                 [i \in DOMAIN hs |-> <<hs[i], get_longest_streak(hs[i], t)>>]
         IN MaxByStreak(Tail(habit_streaks), Head(habit_streaks))

-----------------------------------------------------------------------------
(* the result register: the last operation applied, its argument, its value *)

NoResult == [op |-> "none", arg |-> 0, val |-> 0]

Result(op, arg, val) == [op |-> op, arg |-> arg, val |-> val]

-----------------------------------------------------------------------------
(* class DataManager: the habits and completions tables *)

\* the tables of a new database; locked: a connection that was never closed
\* holds the write lock of an uncommitted transaction
EmptyDb == [habits |-> <<>>, completions |-> <<>>, locked |-> FALSE]

\* the ids of a list of habits are pairwise distinct
DistinctIds(hs) == \A i, j \in DOMAIN hs : hs[i].id = hs[j].id => i = j

\* the row save_data inserts into the habits table
HabitRow(h) ==
    [id |-> h.id, name |-> h.name, description |-> h.description,
     periodicity |-> h.periodicity, created_at |-> isoformat(h.created_at)]

RECURSIVE CompletionRows(_)
\* the rows save_data inserts into the completions table, in insertion order
CompletionRows(hs) ==
    IF hs = <<>> THEN <<>>
    ELSE [i \in DOMAIN Head(hs).completions |->
             [habit_id |-> Head(hs).id,
              completed_at |-> isoformat(Head(hs).completions[i])]]
         \o CompletionRows(Tail(hs))

\* DataManager.save_data: both tables are cleared and every habit is inserted.
\* A second row with the same PRIMARY KEY id raises IntegrityError before the
\* commit: the stored tables stay as they were, and the connection, which is
\* never closed on that path, keeps the write lock until it is finalized.
\* While the lock is held the first DELETE raises OperationalError (database
\* is locked).
save_data(hs, old) ==
    IF old.locked THEN old
    ELSE IF DistinctIds(hs)
         THEN [habits |-> [i \in DOMAIN hs |-> HabitRow(hs[i])],
               completions |-> CompletionRows(hs),
               locked |-> FALSE]
         ELSE [old EXCEPT !.locked = TRUE]

\* the exception save_data raises, "none" when it returns
SaveError(hs, old) ==
    IF old.locked THEN "OperationalError"
    ELSE IF DistinctIds(hs) THEN "none" ELSE "IntegrityError"

\* save_data raises
SaveFails(hs, old) == SaveError(hs, old) # "none"

\* a call that returned value
Returned(value) == [returned |-> TRUE, value |-> value, raised |-> "none"]

\* a call that raised error and returned nothing
Raised(error) == [returned |-> FALSE, value |-> FALSE, raised |-> error]

\* DataManager.load_data: one Habit per row of the habits table, with the
\* completions whose habit_id is the row's id
load_data(d) ==
    [i \in DOMAIN d.habits |->
        LET completion_rows ==
                SelectSeq(d.completions,
                          LAMBDA row : row.habit_id = d.habits[i].id)
        IN Habit(d.habits[i].name, d.habits[i].description,
                 d.habits[i].periodicity, d.habits[i].id,
                 fromisoformat(d.habits[i].created_at),
                 [k \in DOMAIN completion_rows |->
                     fromisoformat(completion_rows[k].completed_at)])]

-----------------------------------------------------------------------------
(* class HabitTracker *)

\* HabitTracker.__init__ on a new database: load_habits finds no rows
Init ==
    /\ habits = <<>>
    /\ db = EmptyDb
    /\ now = 0
    /\ res = NoResult

\* HabitTracker.get_habit_by_id: the index of the first habit with the id, 0 for None
get_habit_by_id(hs, habit_id) ==
    IF \E i \in DOMAIN hs : hs[i].id = habit_id
    THEN CHOOSE i \in DOMAIN hs :
             /\ hs[i].id = habit_id
             /\ \A j \in DOMAIN hs : hs[j].id = habit_id => i <= j
    ELSE 0

\* time passes
Tick ==
    /\ now < MaxClock
    /\ now' = now + 1
    /\ UNCHANGED <<habits, db, res>>

\* Habit(name, description, periodicity, id) raises ValueError: no habit is
\* built and add_habit is never reached
ConstructRejected(id, periodicity) ==
    /\ ~ValidPeriodicity(periodicity)
    /\ res' = Result("add", id, "ValueError")
    /\ UNCHANGED <<habits, db, now>>

\* Habit(name, description, periodicity, id) followed by tracker.add_habit(habit)
AddHabit(id, periodicity) ==
    /\ ValidPeriodicity(periodicity)
    /\ Len(habits) < MaxHabits
    /\ \E name \in Names, description \in Descriptions :
           LET hs == Append(habits, Habit(name, description, periodicity, id, now, <<>>))
           IN /\ habits' = hs
              /\ db' = save_data(hs, db)
              /\ res' = Result("add", id,
                               IF SaveFails(hs, db) THEN SaveError(hs, db) ELSE "added")
    /\ UNCHANGED now

\* HabitTracker.remove_habit
RemoveHabit(habit_id) ==
    LET initial_count == Len(habits)
        hs == SelectSeq(habits, LAMBDA h : h.id # habit_id)
    IN /\ habits' = hs
       /\ IF Len(hs) < initial_count
          THEN /\ db' = save_data(hs, db)
               /\ res' = Result("remove", habit_id,
                                IF SaveFails(hs, db) THEN Raised(SaveError(hs, db))
                                ELSE Returned(TRUE))
          ELSE /\ db' = db
               /\ res' = Result("remove", habit_id, Returned(FALSE))
       /\ UNCHANGED now

\* HabitTracker.complete_habit
CompleteHabit(habit_id) ==
    LET i == get_habit_by_id(habits, habit_id)
    IN /\ IF i # 0
          THEN /\ Len(habits[i].completions) < MaxDone
               /\ LET hs == [habits EXCEPT ![i] = complete_task(@, now)]
                  IN /\ habits' = hs
                     /\ db' = save_data(hs, db)
                     /\ res' = Result("complete", habit_id,
                                      IF SaveFails(hs, db) THEN Raised(SaveError(hs, db))
                                      ELSE Returned(TRUE))
          ELSE /\ res' = Result("complete", habit_id, Returned(FALSE))
               /\ UNCHANGED <<habits, db>>
       /\ UNCHANGED now

\* a new HabitTracker(): load_habits replaces the collection by what is stored
LoadHabits ==
    /\ habits' = load_data(db)
    /\ res' = Result("load", 0, Len(db.habits))
    /\ UNCHANGED <<db, now>>

\* the connection a failed save_data left open is finalized (by the garbage
\* collector, at a time the program does not control): its transaction is
\* rolled back and the lock released
ReleaseConnection ==
    /\ db.locked
    /\ db' = [db EXCEPT !.locked = FALSE]
    /\ UNCHANGED <<habits, now, res>>

Next ==
    \/ Tick
    \/ \E id \in Ids, p \in PeriodicityInputs : ConstructRejected(id, p)
    \/ \E id \in Ids, p \in PeriodicityInputs : AddHabit(id, p)
    \/ \E id \in Ids : RemoveHabit(id)
    \/ \E id \in Ids : CompleteHabit(id)
    \/ LoadHabits
    \/ ReleaseConnection

Spec == Init /\ [][Next]_vars

-----------------------------------------------------------------------------
(* the analytics applied to one habit: the inputs are drawn by Init, as the *)
(* test fixtures build them (Habit(..., created_at=..., completions=[...]), *)
(* tracker.habits = [...]; tracker.save_habits())                           *)

\* the datetime of day d at time-of-day slot s
At(d, s) == Combine(d) + s

RECURSIVE Ascending(_)
\* the elements of a finite set of integers as a list, smallest first
Ascending(S) ==
    IF S = {} THEN <<>>
    ELSE LET m == CHOOSE x \in S : \A y \in S : x <= y
         IN <<m>> \o Ascending(S \ {m})

\* the sets of at most MaxCompletions days on which a drawn habit is completed
CompletionDays == {S \in SUBSET Days : Cardinality(S) <= MaxCompletions}

\* one completion on each day of S, at time of day s, oldest first
CompletionsOn(S, s) == [i \in 1..Cardinality(S) |-> At(Ascending(S)[i], s)]

\* a habit of either periodicity, created at any time, completed on any days
\* (before its creation and after now included), analysed at any now
InitAnalytics ==
    /\ \E p \in Periodicities, c \in Times, S \in CompletionDays, s \in TimesOfDay :
           habits = <<Habit("Exercise", "Daily exercise", p, "h1", c,
                            CompletionsOn(S, s))>>
    /\ db = save_data(habits, EmptyDb)
    /\ now \in Times
    /\ res = NoResult

\* completion lists of at most MaxCompletions arbitrary timestamps, oldest first
CompletionLists ==
    UNION {{cs \in [1..n -> Times] : \A i \in 1..(n - 1) : cs[i] < cs[i + 1]} :
           n \in 0..MaxCompletions}

\* a habit of either periodicity with any completion list; its creation time
\* and the clock play no part in is_task_completed_for_period
InitPeriod ==
    /\ \E p \in Periodicities, cs \in CompletionLists :
           habits = <<Habit("Exercise", "Daily exercise", p, "h1", 0, cs)>>
    /\ db = save_data(habits, EmptyDb)
    /\ now = 0
    /\ res = NoResult

\* mutant: the latest completion is taken off the list (completions.pop())
GetCurrentStreak_PopsLatest ==
    /\ \E i \in DOMAIN habits :
           /\ res' = Result("current", i, get_current_streak(habits[i], now))
           /\ habits' = [habits EXCEPT ![i].completions =
                             SubSeq(@, 1, IF @ = <<>> THEN 0 ELSE Len(@) - 1)]
    /\ UNCHANGED <<db, now>>

\* habit.get_current_streak() on a habit of the collection
GetCurrentStreak ==
    /\ \E i \in DOMAIN habits :
           res' = Result("current", i, get_current_streak(habits[i], now))
    /\ UNCHANGED <<habits, db, now>>

\* habit.get_longest_streak() on a habit of the collection
GetLongestStreak ==
    /\ \E i \in DOMAIN habits :
           res' = Result("longest", i, get_longest_streak(habits[i], now))
    /\ UNCHANGED <<habits, db, now>>

\* get_struggling_habits(habits, days)
GetStrugglingHabits ==
    /\ \E days \in Windows :
           res' = Result("struggling", days, get_struggling_habits(habits, now, days))
    /\ UNCHANGED <<habits, db, now>>

\* habit.is_task_completed_for_period(target_date) on a habit of the collection
IsTaskCompletedForPeriod ==
    /\ \E target_date \in Times :
           res' = Result("completed", target_date,
                         is_task_completed_for_period(habits[1], target_date))
    /\ UNCHANGED <<habits, db, now>>

\* get_habits_by_periodicity(habits, periodicity)
GetHabitsByPeriodicity ==
    /\ \E periodicity \in Periodicities :
           res' = Result("by_periodicity", periodicity,
                         get_habits_by_periodicity(habits, periodicity))
    /\ UNCHANGED <<habits, db, now>>

\* get_longest_streak_all(habits); the register keeps the time of the call
GetLongestStreakAll ==
    /\ res' = Result("longest_all", now, get_longest_streak_all(habits, now))
    /\ UNCHANGED <<habits, db, now>>

\* a habit of either periodicity, created on any day, completed on any days
\* at either time of day, analysed on any day. The streak and struggling
\* computations read created_at and now through .date() only, so both are
\* drawn at midnight.
InitAnchors ==
    /\ \E p \in Periodicities, c \in Days, S \in CompletionDays, s \in TimesOfDay :
           habits = <<Habit("Exercise", "Daily exercise", p, "h1", Combine(c),
                            CompletionsOn(S, s))>>
    /\ db = save_data(habits, EmptyDb)
    /\ now \in {Combine(d) : d \in Days}
    /\ res = NoResult

NextAnchors == GetCurrentStreak

SpecAnchors == InitAnchors /\ [][NextAnchors]_vars

\* Habit.from_dict(habit.to_dict()) on a habit of the collection
ToDictFromDict ==
    /\ \E i \in DOMAIN habits :
           res' = Result("from_dict", i, from_dict(to_dict(habits[i])))
    /\ UNCHANGED <<habits, db, now>>

NextStreak == GetCurrentStreak \/ GetLongestStreak \/ ToDictFromDict

SpecStreak == InitAnalytics /\ [][NextStreak]_vars

NextStruggling == GetStrugglingHabits

SpecStruggling == InitAnalytics /\ [][NextStruggling]_vars

NextPeriod == IsTaskCompletedForPeriod

SpecPeriod == InitPeriod /\ [][NextPeriod]_vars

\* the operations of the streak engine, applied to one habit and to the
\* collection that holds it
NextEngine ==
    \/ IsTaskCompletedForPeriod
    \/ GetCurrentStreak
    \/ GetLongestStreak
    \/ GetStrugglingHabits
    \/ GetHabitsByPeriodicity
    \/ GetLongestStreakAll

SpecEngine == InitPeriod /\ [][NextEngine]_vars

\* the habits of a drawn collection: of either periodicity, created on day 0,
\* completed on any of the days 0..MaxSpan
CollectionHabits ==
    {Habit("Exercise", "Daily exercise", p, id, Combine(0), CompletionsOn(S, 0)) :
        p \in Periodicities, id \in Ids, S \in SUBSET (0..MaxSpan)}

\* a collection of at most MaxHabits such habits (test_get_longest_streak_all
\* passes a list of habits built with their completions), analysed on any of
\* the days 0..MaxSpan
InitCollection ==
    /\ habits \in UNION {[1..n -> CollectionHabits] : n \in 0..MaxHabits}
    /\ db = EmptyDb
    /\ now \in {Combine(d) : d \in 0..MaxSpan}
    /\ res = NoResult

NextCollection == GetLongestStreakAll

SpecCollection == InitCollection /\ [][NextCollection]_vars

-----------------------------------------------------------------------------
(* the vocabulary of the claims: periods and their anchors *)

\* the anchor of the period a date belongs to: the date itself (daily), the
\* Monday of its week (weekly)
PeriodAnchor(p, d) == IF p = "daily" THEN d ELSE d - (d % DaysPerWeek)

\* the distance in days between two consecutive period anchors
PeriodLength(p) == IF p = "daily" THEN 1 ELSE DaysPerWeek

\* some completion of h has the period anchor a
CompletedIn(h, a) ==
    \E i \in DOMAIN h.completions :
        PeriodAnchor(h.periodicity, DateOf(h.completions[i])) = a

NowAnchor(h) == PeriodAnchor(h.periodicity, DateOf(now))

CreatedAnchor(h) == PeriodAnchor(h.periodicity, DateOf(h.created_at))

SetMax(S) == CHOOSE x \in S : \A y \in S : y <= x

\* the k periods starting at anchor a and going forward all lie between the
\* creation period and the period of now, and are all completed
RunFrom(h, a, k) ==
    \A j \in 0..(k - 1) :
        LET b == a + j * PeriodLength(h.periodicity)
        IN /\ CreatedAnchor(h) <= b
           /\ b <= NowAnchor(h)
           /\ CompletedIn(h, b)

\* the number of consecutive completed periods counted backward from the
\* period containing now, the creation period being the last one counted
ConsecutiveBack(h) ==
    SetMax({k \in 0..(MaxDay + 1) :
               RunFrom(h, NowAnchor(h) - (k - 1) * PeriodLength(h.periodicity), k)})

\* the longest run of consecutive completed periods between the creation
\* period and the period containing now
LongestRun(h) ==
    SetMax({k \in 0..(MaxDay + 1) : k = 0 \/ \E a \in Days : RunFrom(h, a, k)})

\* the habit the last streak operation was applied to
Subject == habits[res.arg]

\* a habit as the application itself produces it: created before now, and
\* completed between its creation and now
WellFormed(h) ==
    /\ h.created_at <= now
    /\ \A i \in DOMAIN h.completions :
           h.created_at <= h.completions[i] /\ h.completions[i] <= now

\* C1, for a habit as the application produces it: get_current_streak returns
\* the number of consecutive completed periods counted backward from the
\* period containing now, stopping at the first period without a completion
\* or after the creation period, which is counted when it is completed (for
\* a weekly habit: the week containing the creation date).
C1_CurrentStreakCountsBack ==
    (res.op = "current" /\ WellFormed(Subject)) => res.val = ConsecutiveBack(Subject)

\* the same count holds of every daily habit and of every weekly habit
\* created on a Monday, whatever its creation time, completions and now
C1_ExceptMidWeekCreation ==
    (/\ res.op = "current"
     /\ \/ Subject.periodicity = "daily"
        \/ Weekday(DateOf(Subject.created_at)) = 0)
    => res.val = ConsecutiveBack(Subject)

C3_LongestAtLeastCurrent ==
    res.op = "current" => get_longest_streak(Subject, now) >= res.val

\* a current streak that is shorter than the longest streak, on a habit with
\* a completion dated before its creation
C3_Witness ==
    /\ res.op = "current"
    /\ res.val >= 1
    /\ get_longest_streak(Subject, now) > res.val
    /\ \E i \in DOMAIN Subject.completions :
           Subject.completions[i] < Subject.created_at

\* get_current_streak without its early return: the backward walk alone,
\* started at the period containing now
BackwardWalk(h, t) ==
    IF h.periodicity = "daily"
    THEN StreakWalk(h, DateOf(t), 1)
    ELSE StreakWalk(h, DateOf(t) - Weekday(DateOf(t)), DaysPerWeek)

\* C22: the early return of get_current_streak is redundant with the backward
\* walk: for every habit with at least one completion and every now, the
\* value returned equals the value the backward walk alone would return.
C22_EarlyReturnRedundant ==
    (res.op = "current" /\ Subject.completions # <<>>)
    => res.val = BackwardWalk(Subject, now)

\* the early return is taken for a weekly habit with three completions, the
\* latest of them in the week before the current one
C22_Witness ==
    /\ res.op = "current"
    /\ Subject.periodicity = "weekly"
    /\ Len(Subject.completions) = 3
    /\ PeriodAnchor("weekly", DateOf(SeqMax(Subject.completions)))
           = NowAnchor(Subject) - DaysPerWeek
    /\ DateOf(Subject.created_at) <= NowAnchor(Subject) - DaysPerWeek
    /\ res.val = 0

\* C10: if the most recent completion falls in a period strictly before the
\* period containing now, get_current_streak returns 0, however many earlier
\* consecutive periods were completed.
C10_GapYieldsZero ==
    (/\ res.op = "current"
     /\ Subject.completions # <<>>
     /\ PeriodAnchor(Subject.periodicity, DateOf(SeqMax(Subject.completions)))
            < NowAnchor(Subject))
    => res.val = 0

\* the two periods before the current one are completed, the current one is
\* not, and the streak is 0
C10_Witness ==
    /\ res.op = "current"
    /\ res.val = 0
    /\ CreatedAnchor(Subject) < NowAnchor(Subject) - PeriodLength(Subject.periodicity)
    /\ CompletedIn(Subject, NowAnchor(Subject) - PeriodLength(Subject.periodicity))
    /\ CompletedIn(Subject, NowAnchor(Subject) - 2 * PeriodLength(Subject.periodicity))
    /\ PeriodAnchor(Subject.periodicity, DateOf(SeqMax(Subject.completions)))
           < NowAnchor(Subject)

\* C14: Habit.from_dict(h.to_dict()) has the same id, name, description,
\* periodicity and creation time as h and the same completion timestamps in
\* the same number, so is_task_completed_for_period, get_current_streak and
\* get_longest_streak give the same results on the restored habit as on h.
C14_RoundTrip ==
    res.op = "from_dict" =>
        /\ res.val.id = Subject.id
        /\ res.val.name = Subject.name
        /\ res.val.description = Subject.description
        /\ res.val.periodicity = Subject.periodicity
        /\ res.val.created_at = Subject.created_at
        /\ res.val.completions = Subject.completions
        /\ \A target_date \in Times :
               is_task_completed_for_period(res.val, target_date)
                   = is_task_completed_for_period(Subject, target_date)
        /\ get_current_streak(res.val, now) = get_current_streak(Subject, now)
        /\ get_longest_streak(res.val, now) = get_longest_streak(Subject, now)

\* a restored habit whose creation time and three completions are not at
\* midnight, and whose current streak is not 0
C14_Witness ==
    /\ res.op = "from_dict"
    /\ res.val.created_at % SlotsPerDay # 0
    /\ Len(res.val.completions) = 3
    /\ \A i \in DOMAIN res.val.completions : res.val.completions[i] % SlotsPerDay # 0
    /\ get_current_streak(res.val, now) > 0

-----------------------------------------------------------------------------
(* the struggling classification *)

\* the habit analysed by get_struggling_habits
Analysed == habits[1]

\* the last operation was get_struggling_habits and it returned a list that
\* holds the habit
Reported ==
    /\ res.val.returned
    /\ \E i \in DOMAIN res.val.value : res.val.value[i] = Analysed

\* the last operation was get_struggling_habits and its is_struggling
\* classified the habit as struggling
Struggling == \E i \in DOMAIN res.val.consumed : res.val.consumed[i] = Analysed

\* the periods the struggling computation classified, as a set
Classified(h, days) == {CheckDates(h, now, days)[i] : i \in DOMAIN CheckDates(h, now, days)}

MissedPeriods(h, days) == {a \in Classified(h, days) : ~CompletedIn(h, a)}

CompletedPeriods(h, days) == {a \in Classified(h, days) : CompletedIn(h, a)}

\* strictly more of the classified periods were missed than completed, and
\* at least one period was classified
MoreMissed(h, days) ==
    /\ Cardinality(MissedPeriods(h, days)) > Cardinality(CompletedPeriods(h, days))
    /\ Classified(h, days) # {}

\* C4, for a habit as the application produces it: a habit is reported by
\* get_struggling_habits iff strictly more of the classified periods were
\* missed than completed and at least one period was classified; on a tie the
\* habit is not struggling.
C4_ReportedIffMoreMissed ==
    (res.op = "struggling" /\ WellFormed(Analysed)) =>
        (Reported <=> MoreMissed(Analysed, res.arg))

\* the classification alone: is_struggling is true of a habit iff strictly
\* more of the classified periods were missed than completed and at least one
\* period was classified
IsStrugglingIffMoreMissed ==
    res.op = "struggling" => (Struggling <=> MoreMissed(Analysed, res.arg))

\* the period anchors that lie within [now - days, now] and are on or after
\* the anchor of the creation period
WindowAnchors(h, days) ==
    {a \in Days :
        /\ DateOf(now) - days <= a
        /\ a <= DateOf(now)
        /\ PeriodAnchor(h.periodicity, a) = a
        /\ CreatedAnchor(h) <= a}

\* C5, as claimed: the periods classified by the struggling computation are
\* exactly the period anchors within [now - windowDays, now] on or after the
\* anchor of the creation period.
C5_ClassifiedAreWindowAnchors ==
    res.op = "struggling" =>
        Classified(Analysed, res.arg) = WindowAnchors(Analysed, res.arg)

\* C5, its last clause, for a habit as the application produces it and the
\* default window: the creation week of a weekly habit is classified whenever
\* its anchor falls in the window.
C5_CreationWeekClassified ==
    (/\ res.op = "struggling"
     /\ res.arg = DefaultDays
     /\ WellFormed(Analysed)
     /\ Analysed.periodicity = "weekly"
     /\ CreatedAnchor(Analysed) \in WindowAnchors(Analysed, res.arg))
    => CreatedAnchor(Analysed) \in Classified(Analysed, res.arg)

\* a habit with no completions analysed at its creation time with the default
\* window
FreshHabit ==
    /\ res.op = "struggling"
    /\ res.arg = DefaultDays
    /\ Analysed.completions = <<>>
    /\ now = Analysed.created_at

\* C6, as claimed: a habit created today with no completions, analysed at its
\* creation time, has current streak 0, longest streak 0 and is not struggling,
\* there being no missed or completed period to compare.
C6_FreshHabitNotStruggling ==
    FreshHabit =>
        /\ get_current_streak(Analysed, now) = 0
        /\ get_longest_streak(Analysed, now) = 0
        /\ ~Struggling
        /\ Classified(Analysed, res.arg) = {}

\* C6, amended: such a habit has current streak 0 and longest streak 0; a daily
\* habit is classified as struggling (its creation day is classified and
\* missed), a weekly habit exactly when it was created on a Monday.
C6_FreshHabitAmended ==
    FreshHabit =>
        /\ get_current_streak(Analysed, now) = 0
        /\ get_longest_streak(Analysed, now) = 0
        /\ Analysed.periodicity = "daily" => Struggling
        /\ Analysed.periodicity = "weekly" =>
               (Struggling <=> Weekday(DateOf(Analysed.created_at)) = 0)

\* a daily habit analysed at its creation time is classified as struggling
C6_Witness ==
    /\ FreshHabit
    /\ Analysed.periodicity = "daily"
    /\ Struggling

\* the periods of the trailing window (days periods back from today for a
\* daily habit, days / 7 + 1 weeks back from this week for a weekly one) that
\* are on or after the creation period
InWindowPeriods(h, days) ==
    LET n == IF h.periodicity = "daily" THEN days ELSE (days \div DaysPerWeek) + 1
    IN {a \in Days :
           /\ CreatedAnchor(h) <= a
           /\ \E i \in 0..(n - 1) : a = NowAnchor(h) - i * PeriodLength(h.periodicity)}

\* C7, for a habit as the application produces it and the default window: a
\* habit with no completions has current streak 0 and longest streak 0, and is
\* struggling iff at least one in-window period on or after its creation
\* exists.
C7_NoCompletions ==
    (/\ res.op = "struggling"
     /\ res.arg = DefaultDays
     /\ Analysed.completions = <<>>
     /\ WellFormed(Analysed)) =>
        /\ get_current_streak(Analysed, now) = 0
        /\ get_longest_streak(Analysed, now) = 0
        /\ Struggling <=> InWindowPeriods(Analysed, res.arg) # {}

\* C11, its classification, for a habit as the application produces it: with
\* a zero-length window (windowDays = 0) the struggling computation is false
\* of every habit, daily or weekly, whatever its creation time and completions.
C11_ZeroWindowNotStruggling ==
    (res.op = "struggling" /\ res.arg = 0 /\ WellFormed(Analysed)) => ~Struggling

\* with a zero-length window no daily habit is classified as struggling, and
\* a weekly habit is exactly when the current week starts on or after its
\* creation date and has no completion
C11_ZeroWindowClassification ==
    (res.op = "struggling" /\ res.arg = 0) =>
        (Struggling <=>
            /\ Analysed.periodicity = "weekly"
            /\ NowAnchor(Analysed) >= DateOf(Analysed.created_at)
            /\ ~CompletedIn(Analysed, NowAnchor(Analysed)))

\* a habit whose creation period is after the period containing now
FutureHabit ==
    /\ res.op = "struggling"
    /\ CreatedAnchor(Analysed) > NowAnchor(Analysed)

SameAnchorLists(p, cs) ==
    {[i \in DOMAIN cs |-> cs[Len(cs) + 1 - i]]}
    \cup UNION {{Append(cs, x), <<x>> \o cs} :
                  x \in {y \in Times :
                            \E i \in DOMAIN cs :
                                PeriodAnchor(p, DateOf(cs[i])) = PeriodAnchor(p, DateOf(y))}}

\* C13: get_current_streak, get_longest_streak and the struggling
\* classification depend only on the set of period anchors of the
\* completions: a further completion in a period that already has one, or
\* another order of the completion list, changes none of the three results.
C13_AnchorsOnly ==
    res.op = "current" =>
        \A cs \in SameAnchorLists(Subject.periodicity, Subject.completions) :
            LET g == [Subject EXCEPT !.completions = cs]
            IN /\ get_current_streak(g, now) = res.val
               /\ get_longest_streak(g, now) = get_longest_streak(Subject, now)
               /\ \A days \in Windows :
                      is_struggling(g, now, days) = is_struggling(Subject, now, days)

\* a habit with a current streak of two periods, completed on two days, whose
\* list has a variant with a third completion later on the day of the first
C13_Witness ==
    /\ res.op = "current"
    /\ Len(Subject.completions) = 2
    /\ res.val = 2
    /\ \E cs \in SameAnchorLists(Subject.periodicity, Subject.completions) :
           /\ Len(cs) = 3
           /\ cs[3] > Subject.completions[1]
           /\ DateOf(cs[3]) = DateOf(Subject.completions[1])

-----------------------------------------------------------------------------
(* completion of a period *)

\* C9: is_task_completed_for_period(target) is true iff some completion has the
\* same period anchor as the target: the same calendar date for a daily habit,
\* the same Monday-anchored week for a weekly one.
C9_CompletedIffSameAnchor ==
    res.op = "completed" =>
        (res.val <=>
            CompletedIn(Analysed, PeriodAnchor(Analysed.periodicity, DateOf(res.arg))))

\* a weekly habit completed on the Sunday before the target's week is not
\* completed for the target's week
C9_Witness ==
    /\ res.op = "completed"
    /\ Analysed.periodicity = "weekly"
    /\ ~res.val
    /\ \E i \in DOMAIN Analysed.completions :
           DateOf(Analysed.completions[i])
               = PeriodAnchor("weekly", DateOf(res.arg)) - 1

\* C16: a timestamp is always within its own period: a habit of either
\* periodicity whose completions contain t is completed for the period of t,
\* whatever the time of day and day of week of t.
C16_OwnPeriod ==
    (/\ res.op = "completed"
     /\ \E i \in DOMAIN Analysed.completions : Analysed.completions[i] = res.arg)
    => res.val

\* a weekly habit whose only completion is on a Sunday, not at midnight, is
\* completed for the period of that timestamp
C16_Witness ==
    /\ res.op = "completed"
    /\ Analysed.periodicity = "weekly"
    /\ Analysed.completions = <<res.arg>>
    /\ Weekday(DateOf(res.arg)) = DaysPerWeek - 1
    /\ res.arg % SlotsPerDay # 0
    /\ res.val

-----------------------------------------------------------------------------
(* the analytics over a collection *)

\* C17: the streak engine never mutates the habit it is given:
\* is_task_completed_for_period, get_current_streak, get_longest_streak,
\* get_struggling_habits, get_habits_by_periodicity and get_longest_streak_all
\* leave every habit's id, cadence, creation time and completion list
\* (contents and order) unchanged, and leave the collection passed in (and
\* what is stored of it) unchanged.
C17_EngineLeavesHabits == [][habits' = habits /\ db' = db]_vars

\* get_struggling_habits has run on a collection whose habit has
\* MaxCompletions completions, has classified it as struggling and has raised
\* from its list call, and the stored collection is still the one in memory
C17_Witness ==
    /\ res.op = "struggling"
    /\ res.val.raised = "TypeError"
    /\ Struggling
    /\ Len(Analysed.completions) = MaxCompletions
    /\ habits = load_data(db)

\* the longest streak of the i-th habit of the collection at the time of the
\* call of get_longest_streak_all
LongestOf(i) == get_longest_streak(habits[i], res.arg)

\* C20: get_longest_streak_all returns (None, 0) for an empty collection; for
\* a non-empty collection it returns a pair (h, s) where h is a member of the
\* collection, s = h.get_longest_streak(), s is the maximum of
\* get_longest_streak over the collection, and among the habits tied for the
\* maximum h is the first in collection order.
C20_LongestStreakAll ==
    res.op = "longest_all" =>
        IF habits = <<>>
        THEN res.val = <<None, 0>>
        ELSE \E i \in DOMAIN habits :
                 /\ res.val[1] = habits[i]
                 /\ res.val[2] = LongestOf(i)
                 /\ \A j \in DOMAIN habits : LongestOf(j) <= res.val[2]
                 /\ \A j \in 1..(i - 1) : LongestOf(j) < res.val[2]

\* two different habits are tied for a longest streak of two periods and the
\* first one is returned
C20_Witness ==
    /\ res.op = "longest_all"
    /\ Len(habits) = 2
    /\ habits[1] # habits[2]
    /\ LongestOf(1) = 2
    /\ LongestOf(2) = 2
    /\ res.val = <<habits[1], 2>>

-----------------------------------------------------------------------------
(* the tracker's collection *)

\* C8: constructing a Habit with a periodicity other than 'daily' or 'weekly'
\* fails and produces no habit, so every habit of the tracker's collection,
\* and every stored habit, has periodicity daily or weekly.
C8_PeriodicityValid ==
    /\ \A i \in DOMAIN habits : habits[i].periodicity \in {"daily", "weekly"}
    /\ \A i \in DOMAIN db.habits : db.habits[i].periodicity \in {"daily", "weekly"}

\* a construction was rejected with ValueError while the collection, reloaded
\* from the stored tables, holds a completed habit
C8_Witness ==
    /\ res.op = "add"
    /\ res.val = "ValueError"
    /\ habits # <<>>
    /\ habits = load_data(db)
    /\ \E i \in DOMAIN habits : habits[i].completions # <<>>

\* C15: saving is a full replace and loading returns everything saved: after
\* any sequence of add_habit, remove_habit and complete_habit calls the
\* persisted collection equals the tracker's in-memory collection (same ids,
\* cadences, creation times and completion timestamps, nothing left over), so
\* a newly constructed HabitTracker loads exactly that collection.
C15_PersistedEqualsMemory == load_data(db) = habits

\* the persisted collection equals the in-memory one after every call whose
\* save_data returned, and after every load
C15_EqualAfterSave ==
    (\/ res.op = "load"
     \/ res.op = "add" /\ res.val = "added"
     \/ res.op \in {"remove", "complete"} /\ res.val = Returned(TRUE))
    => load_data(db) = habits

\* the step is a call of remove_habit: it leaves its outcome in the register,
\* and is neither the clock's step nor the release of a connection
RemoveStep ==
    /\ res'.op = "remove"
    /\ now' = now
    /\ ~(db.locked /\ ~db'.locked)

\* the collection holds a habit with the id
Contains(hs, habit_id) == \E i \in DOMAIN hs : hs[i].id = habit_id

\* C18: remove_habit(id) returns True iff the collection contained a habit with
\* that id before the call; after a True result no habit with that id remains
\* and every other habit is still present in its original relative order;
\* after a False result the in-memory collection and the persisted collection
\* are both unchanged.
C18_RemoveHabit ==
    [][RemoveStep =>
        /\ res'.val = Returned(TRUE) <=> Contains(habits, res'.arg)
        /\ res'.val = Returned(TRUE) =>
               /\ ~Contains(habits', res'.arg)
               /\ habits' = SelectSeq(habits, LAMBDA h : h.id # res'.arg)
        /\ res'.val = Returned(FALSE) => habits' = habits /\ db' = db]_vars

\* whenever remove_habit returns, it returns as C18 says; it returns False
\* iff the collection did not contain the id, and raises otherwise only when
\* its save_data raises
C18_WhenItReturns ==
    [][RemoveStep =>
        /\ res'.val = Returned(FALSE) <=> ~Contains(habits, res'.arg)
        /\ res'.val.returned /\ res'.val.value =>
               /\ ~Contains(habits', res'.arg)
               /\ habits' = SelectSeq(habits, LAMBDA h : h.id # res'.arg)
        /\ res'.val = Returned(FALSE) => habits' = habits /\ db' = db
        /\ ~res'.val.returned =>
               SaveFails(SelectSeq(habits, LAMBDA h : h.id # res'.arg), db)]_vars

\* the step is a call of complete_habit
CompleteStep ==
    /\ res'.op = "complete"
    /\ now' = now
    /\ ~(db.locked /\ ~db'.locked)

\* C19: complete_habit(id) returns True iff a habit with that id is in the
\* collection; on True exactly one completion timestamp (the current time) is
\* appended to that habit's completions and no other habit's completions
\* change; on False no habit's completions change and nothing is saved.
\* get_habit_by_id returns the habit with that id, or None when there is none.
C19_CompleteHabit ==
    [][CompleteStep =>
        LET i == get_habit_by_id(habits, res'.arg)
        IN /\ i = 0 <=> ~Contains(habits, res'.arg)
           /\ i # 0 => habits[i].id = res'.arg
           /\ res'.val = Returned(TRUE) <=> Contains(habits, res'.arg)
           /\ res'.val = Returned(TRUE) =>
                  habits' = [habits EXCEPT ![i].completions = Append(@, now)]
           /\ res'.val = Returned(FALSE) => habits' = habits /\ db' = db]_vars

\* whenever complete_habit returns, it returns as C19 says; it raises, after
\* having appended the completion in memory, only when its save_data raises
C19_WhenItReturns ==
    [][CompleteStep =>
        LET i == get_habit_by_id(habits, res'.arg)
        IN /\ i = 0 <=> ~Contains(habits, res'.arg)
           /\ i # 0 => habits[i].id = res'.arg
           /\ res'.val = Returned(FALSE) <=> ~Contains(habits, res'.arg)
           /\ i # 0 => habits' = [habits EXCEPT ![i].completions = Append(@, now)]
           /\ res'.val = Returned(FALSE) => habits' = habits /\ db' = db
           /\ ~res'.val.returned => db'.habits = db.habits]_vars

\* complete_habit has just returned True for a habit created at or before
\* now: the habit it completed, whose latest completion is now
JustCompleted(i) ==
    /\ res.op = "complete"
    /\ res.val = Returned(TRUE)
    /\ i = get_habit_by_id(habits, res.arg)
    /\ habits[i].completions # <<>>
    /\ habits[i].completions[Len(habits[i].completions)] = now
    /\ habits[i].created_at <= now

\* C21: immediately after complete_habit(id) succeeds for a habit whose
\* creation time is not after now (the completion timestamp equals now),
\* get_current_streak of that habit evaluated at the same now is at least 1,
\* for daily and for weekly habits and for every day of the week on which the
\* habit was created.
C21_StreakAfterComplete ==
    \A i \in DOMAIN habits :
        JustCompleted(i) => get_current_streak(habits[i], now) >= 1

\* the same holds of every daily habit and of every weekly habit created no
\* later than the Monday of the week of now
C21_ExceptMidWeekCreation ==
    \A i \in DOMAIN habits :
        (/\ JustCompleted(i)
         /\ \/ habits[i].periodicity = "daily"
            \/ DateOf(habits[i].created_at)
                   <= DateOf(now) - Weekday(DateOf(now)))
        => get_current_streak(habits[i], now) >= 1

\* C23: habit ids are unique within a tracker: in every state reachable by
\* any sequence of add_habit, remove_habit and complete_habit calls (add_habit
\* of a habit whose id is already in the collection included) the ids of the
\* habits in the in-memory collection are pairwise distinct.
C23_UniqueIds == DistinctIds(habits)

\* the stored habits always have pairwise distinct ids (PRIMARY KEY)
C23_StoredIdsUnique == DistinctIds(db.habits)

====
